---- MODULE Spec2Model ----
(***************************************************************************)
(* Session-scoped image history of my_agent/agent.py: the tools            *)
(* save_uploaded_image, list_uploaded_images, clear_image_history and      *)
(* transform_to_halloween_character acting on tool_context.state and on    *)
(* the artifact store behind tool_context.save_artifact / load_artifact.   *)
(*                                                                         *)
(* Spec      : the tools run one at a time, each to completion.            *)
(* SpecConc  : two save_uploaded_image invocations may be in flight at     *)
(*             once, interleaving at the await of save_artifact.           *)
(* SpecEnv   : Spec plus an environment in which genai.Client() cannot be  *)
(*             constructed.                                                *)
(***************************************************************************)
EXTENDS Integers, Sequences, FiniteSets, TLC

\* Python's None, for the optional integers (image_number, current_index,
\* a missing state key).
None == 0 - 1

(***************************************************************************)
(* Bounds of the model.                                                    *)
(***************************************************************************)
\* successful save_uploaded_image calls in one session
MaxUploads == 2
\* artifacts written by transform_to_halloween_character in one session
MaxTransforms == 1
\* save_uploaded_image invocations that may be in flight at once (SpecConc)
Tasks == {1, 2}

(***************************************************************************)
(* Inputs.                                                                 *)
(***************************************************************************)
\* A mime type "t/s" is the pair <<t, s>>: startswith('image/') reads t.
ImagePng == <<"image", "png">>
ImageJpeg == <<"image", "jpeg">>
AppPdf == <<"application", "pdf">>

\* A part of user_content: text only, or inline_data with mime type and data.
TextPart == [inline_data |-> FALSE, mime_type |-> <<"text", "plain">>, data |-> "text"]
InlinePart(m, d) == [inline_data |-> TRUE, mime_type |-> m, data |-> d]
Png1 == InlinePart(ImagePng, "b1")
Png2 == InlinePart(ImagePng, "b2")
Pdf == InlinePart(AppPdf, "b1")

\* tool_context.user_content: <<>> is None, <<parts>> is a Content with parts.
\* The messages of the model: none, no parts, parts without an image, one
\* image, an image after a text part, two images after a non-image file.
UserContents ==
    { <<>>, << <<>> >>, << <<TextPart, Pdf>> >>, << <<Png1>> >>,
      << <<TextPart, Png2>> >>, << <<Pdf, Png1, Png2>> >> }

\* image_number: None, an index the first upload gets, an index no upload gets
ImageNumbers == {None, 1, MaxUploads + 1}

CharacterTypes == {"cursed clown"}

\* A response of the generator is response.candidates, each candidate being
\* its content.parts: text parts and image parts.  A request the service
\* blocks comes back with no candidate.
GenText == [inline_data |-> FALSE, data |-> "text"]
GenImage(d) == [inline_data |-> TRUE, data |-> d]
NoCandidates == <<>>
Response(parts) == << parts >>
GenResponses ==
    { NoCandidates, Response(<<GenText>>), Response(<<GenText, GenImage("g1")>>),
      Response(<<GenImage("g1"), GenImage("g2")>>) }

\* What the collaborators of one transform call do: load_artifact raising,
\* generate_content raising (gen_timeout: the exception is a timeout) or
\* returning a response, save_artifact raising.
Env(load_raises, gen_raises, gen_timeout, response, save_raises) ==
    [ load_raises |-> load_raises, gen_raises |-> gen_raises, gen_timeout |-> gen_timeout,
      response |-> response, save_raises |-> save_raises ]
TransformEnvs ==
    { Env(TRUE, FALSE, FALSE, NoCandidates, FALSE),
      Env(FALSE, TRUE, FALSE, NoCandidates, FALSE),
      Env(FALSE, TRUE, TRUE, NoCandidates, FALSE),
      Env(FALSE, FALSE, FALSE, Response(<<GenText, GenImage("g1")>>), TRUE) }
    \cup { Env(FALSE, FALSE, FALSE, r, FALSE) : r \in GenResponses }

VARIABLES
    images_ref,     \* state[UPLOADED_IMAGES_KEY]: None (key absent) or the list object it holds
    heap,           \* the list objects: reference -> sequence of image_info
    current_index,  \* state[CURRENT_IMAGE_INDEX_KEY], None when the key is absent
    store,          \* the session's artifact store: filename -> versions, oldest first
    user_content,   \* tool_context.user_content of the current turn
    task,           \* locals of the save_uploaded_image invocations in flight
    last,           \* what the most recent completed tool call of this turn did
    returned,       \* indices returned by the successful save_uploaded_image calls, in order
    ever_cleared,   \* whether clear_image_history has emptied the history in this session
    last_upload,    \* the image the most recent successful save_uploaded_image was sent
    sent            \* the images the successful save_uploaded_image calls were sent, in order

vars ==
    << images_ref, heap, current_index, store, user_content, task, last, returned,
       ever_cleared, last_upload, sent >>

(***************************************************************************)
(* get_extension_from_mime                                                 *)
(***************************************************************************)
\* str.lower() on the subtypes and types in use
Lower(s) ==
    CASE s = "IMAGE" -> "image"
      [] s = "PNG" -> "png"
      [] s = "JPEG" -> "jpeg"
      [] OTHER -> s

\* Faulty variant of get_extension_from_mime: the mime type is looked up as
\* it was sent, not in lower case.
get_extension_from_mime_case_sensitive(mime_type) ==
    CASE mime_type = <<"image", "jpeg">> -> ".jpg"
      [] mime_type = <<"image", "jpg">> -> ".jpg"
      [] mime_type = <<"image", "png">> -> ".png"
      [] mime_type = <<"image", "gif">> -> ".gif"
      [] mime_type = <<"image", "webp">> -> ".webp"
      [] mime_type = <<"image", "bmp">> -> ".bmp"
      [] mime_type = <<"image", "tiff">> -> ".tiff"
      [] mime_type = <<"image", "svg+xml">> -> ".svg"
      [] OTHER -> ".png"

get_extension_from_mime(mime_type) ==
    LET m == <<Lower(mime_type[1]), Lower(mime_type[2])>>
    IN  CASE m = <<"image", "jpeg">> -> ".jpg"
          [] m = <<"image", "jpg">> -> ".jpg"
          [] m = <<"image", "png">> -> ".png"
          [] m = <<"image", "gif">> -> ".gif"
          [] m = <<"image", "webp">> -> ".webp"
          [] m = <<"image", "bmp">> -> ".bmp"
          [] m = <<"image", "tiff">> -> ".tiff"
          [] m = <<"image", "svg+xml">> -> ".svg"
          [] OTHER -> ".png"

\* part.inline_data and part.inline_data.mime_type.startswith('image/')
\* Faulty variant of IsImagePart: the mime type is not looked at.
IsImagePartAnyInline(part) == part.inline_data

IsImagePart(part) == part.inline_data /\ part.mime_type[1] = "image"

\* the first part of parts the loop  for part in parts: if <image>  stops at;
\* 0 when there is none
\* Faulty variant of FirstImagePart: the loop does not break and ends on the
\* last image part.
FirstImagePartLast(parts) ==
    IF \E i \in 1 .. Len(parts) : IsImagePart(parts[i])
    THEN CHOOSE i \in 1 .. Len(parts) :
            /\ IsImagePart(parts[i])
            /\ \A j \in (i + 1) .. Len(parts) : ~IsImagePart(parts[j])
    ELSE 0

FirstImagePart(parts) ==
    IF \E i \in 1 .. Len(parts) : IsImagePart(parts[i])
    THEN CHOOSE i \in 1 .. Len(parts) :
            /\ IsImagePart(parts[i])
            /\ \A j \in 1 .. (i - 1) : ~IsImagePart(parts[j])
    ELSE 0

\* not tool_context.user_content or not tool_context.user_content.parts
NoParts(uc) == uc = <<>> \/ uc[1] = <<>>

(***************************************************************************)
(* The artifact store behind tool_context.save_artifact / load_artifact:   *)
(* a filename holds its versions, oldest first; version v is element v.    *)
(***************************************************************************)
\* the place of a blob that is not there
NoBlob == [mime_type |-> <<"none", "none">>, data |-> "none"]
Blob(m, d) == [mime_type |-> m, data |-> d]

\* filenames: f"source_image_{next_index}{extension}" and
\* f"halloween_{safe_character_name}_img{target_index}_{uuid}.png"
SourceFilename(next_index, extension) == <<"source_image", extension, next_index, "">>
HalloweenFilename(safe_name, target_index, uuid) == <<"halloween", safe_name, target_index, uuid>>

Versions(st, filename) == IF filename \in DOMAIN st THEN st[filename] ELSE <<>>

\* put: always a new version, numbered prior count + 1
PutVersion(st, filename) == Len(Versions(st, filename)) + 1
Put(st, filename, blob) ==
    [f \in DOMAIN st \cup {filename} |->
        IF f = filename THEN Append(Versions(st, filename), blob) ELSE st[f]]

\* get with no version: the highest version stored, NoBlob when there is none
GetLatest(st, filename) ==
    IF Versions(st, filename) = <<>> THEN NoBlob
    ELSE Versions(st, filename)[Len(Versions(st, filename))]

\* all versions held by the store
RECURSIVE SumLen(_, _)
SumLen(st, fs) ==
    IF fs = {} THEN 0
    ELSE LET f == CHOOSE g \in fs : TRUE IN Len(st[f]) + SumLen(st, fs \ {f})
ArtifactCount(st) == SumLen(st, DOMAIN st)
NumTransformed(st) == SumLen(st, {f \in DOMAIN st : f[1] = "halloween"})

(***************************************************************************)
(* tool_context.state: the history list is a Python list object, read by   *)
(* reference (state.get returns the stored object, or a new [] when the    *)
(* key is absent) and appended to in place.                                *)
(***************************************************************************)
Refs == 0 .. Cardinality(Tasks)

\* tool_context.state.get(UPLOADED_IMAGES_KEY, []) as a value
uploaded_images == IF images_ref = None THEN <<>> ELSE heap[images_ref]

Indices(imgs) == [i \in 1 .. Len(imgs) |-> imgs[i].index]
IndexSet(imgs) == {imgs[i].index : i \in 1 .. Len(imgs)}

\* references held by the state or by an invocation in flight
LiveRefs(iref, tk) ==
    {iref} \cup {tk[p].list_ref : p \in {q \in Tasks : tk[q].pc # "idle"}}

\* a list object nobody holds
FreshRef(iref, tk) == CHOOSE r \in Refs : r \notin LiveRefs(iref, tk) /\
                          \A q \in Refs : q \notin LiveRefs(iref, tk) => r <= q

\* list objects nobody holds any more are forgotten
Collect(h, iref, tk) == [r \in Refs |-> IF r \in LiveRefs(iref, tk) THEN h[r] ELSE <<>>]

(***************************************************************************)
(* What a completed tool call did, as its caller can observe it.  The      *)
(* outcome names the return statement taken.                               *)
(***************************************************************************)
NoFilename == <<"none", "", None, "">>
NoImage == [index |-> None, filename |-> NoFilename, mime_type |-> <<"none", "none">>, version |-> 0]

NoLast ==
    [ op |-> "none", outcome |-> "none", image_number |-> None,
      index |-> None,             \* the index assigned (upload) or target_index (transform)
      before |-> <<>>,            \* indices of the history when the call began
      current_before |-> None,    \* current_index when the call began
      available |-> <<>>,         \* the indices the message lists
      image_source |-> "none",    \* image_source of transform
      target |-> NoImage,         \* target_image of transform
      contents |-> NoBlob,        \* the image put into contents for the generator
      gen_calls |-> 0,            \* calls of client.models.generate_content
      gen_end |-> "none",         \* how the generator ended: returned, raised, timeout
      gen_images |-> 0,           \* image parts in the response it returned
      store_before |-> <<>>,      \* the artifact store when the call started
      saved |-> 0 ]               \* successful save_artifact calls

IdleTask ==
    [ pc |-> "idle", list_ref |-> None, next_index |-> None, part |-> TextPart,
      filename |-> NoFilename, version |-> 0 ]

Init ==
    /\ images_ref = None
    /\ heap = [r \in Refs |-> <<>>]
    /\ current_index = None
    /\ store = <<>>
    /\ user_content \in UserContents
    /\ task = [p \in Tasks |-> IdleTask]
    /\ last = NoLast
    /\ returned = <<>>
    /\ ever_cleared = FALSE
    /\ last_upload = NoBlob
    /\ sent = <<>>

\* the image a message sends to be recorded: its first image-typed attachment
SentImage(uc) ==
    LET images == IF uc = <<>> THEN <<>>
                  ELSE SelectSeq(uc[1], LAMBDA part : part.inline_data /\ part.mime_type[1] = "image")
    IN  IF images = <<>> THEN NoBlob ELSE Blob(images[1].mime_type, images[1].data)

\* The runner hands the result of a finished tool call to its caller; the
\* next call or message of the session comes after that.
Deliver ==
    /\ last # NoLast
    /\ last' = NoLast
    /\ UNCHANGED << images_ref, heap, current_index, store, user_content, task, returned,
                    ever_cleared, last_upload, sent >>

\* a new user message starts a turn; the tool calls of the turn see it
NewMessage ==
    /\ last = NoLast
    /\ \A p \in Tasks : task[p].pc = "idle"
    /\ \E uc \in UserContents : user_content' = uc
    /\ last' = NoLast
    /\ UNCHANGED << images_ref, heap, current_index, store, task, returned, ever_cleared,
                    last_upload, sent >>

(***************************************************************************)
(* save_uploaded_image                                                     *)
(***************************************************************************)
MaxOf(S) == CHOOSE m \in S : \A x \in S : x <= m

\* Faulty variants of NextIndex: the increment forgotten; the length of the
\* list taken as the next index.
NextIndexNoIncrement(imgs) == IF imgs = <<>> THEN 1 ELSE MaxOf(IndexSet(imgs))
NextIndexLen(imgs) == IF imgs = <<>> THEN 1 ELSE Len(imgs)

\* next_index = 1 if not uploaded_images else max(img['index'] ...) + 1
NextIndex(imgs) == IF imgs = <<>> THEN 1 ELSE MaxOf(IndexSet(imgs)) + 1

\* artifact_filename = f"source_image_{next_index}{extension}"
\* Faulty variant of ArtifactFilename: the index is left out of the name.
ArtifactFilenameWithoutIndex(next_index, mime_type) ==
    SourceFilename(0, get_extension_from_mime(mime_type))

ArtifactFilename(next_index, mime_type) ==
    SourceFilename(next_index, get_extension_from_mime(mime_type))

\* image_info, without its timestamp
ImageInfo(next_index, filename, mime_type, version) ==
    [index |-> next_index, filename |-> filename, mime_type |-> mime_type, version |-> version]

\* One whole call: the values it leaves and what it returns.  save_raises is
\* the artifact store failing the write.
\* Faulty variant of save_uploaded_image: the record is appended and the
\* state written before the artifact is saved, so they stay when the save
\* raises.
save_uploaded_image_records_first(uc, imgs, cur, st, save_raises) ==
    LET unchanged == [outcome |-> "none", images |-> imgs, written |-> FALSE,
                      current |-> cur, store |-> st, index |-> None, saved |-> 0]
    IN  IF NoParts(uc) THEN [unchanged EXCEPT !.outcome = "NoContent"]
        ELSE IF FirstImagePart(uc[1]) = 0 THEN [unchanged EXCEPT !.outcome = "NoImageInMessage"]
        ELSE LET part == uc[1][FirstImagePart(uc[1])]
                 filename == ArtifactFilename(NextIndex(imgs), part.mime_type)
                 recorded == [unchanged EXCEPT
                                !.images = Append(imgs, ImageInfo(NextIndex(imgs), filename,
                                               part.mime_type, PutVersion(st, filename))),
                                !.written = TRUE,
                                !.current = NextIndex(imgs)]
             IN  IF save_raises THEN [recorded EXCEPT !.outcome = "Error"]
                 ELSE [recorded EXCEPT
                         !.outcome = "Saved",
                         !.store = Put(st, filename, Blob(part.mime_type, part.data)),
                         !.index = NextIndex(imgs),
                         !.saved = 1]

save_uploaded_image(uc, imgs, cur, st, save_raises) ==
    LET unchanged == [outcome |-> "none", images |-> imgs, written |-> FALSE,
                      current |-> cur, store |-> st, index |-> None, saved |-> 0]
    IN  IF NoParts(uc) THEN [unchanged EXCEPT !.outcome = "NoContent"]
        ELSE LET next_index == NextIndex(imgs)
                 i == FirstImagePart(uc[1])
             IN  IF i = 0 THEN [unchanged EXCEPT !.outcome = "NoImageInMessage"]
                 ELSE LET part == uc[1][i]
                          filename == ArtifactFilename(next_index, part.mime_type)
                      IN  IF save_raises THEN [unchanged EXCEPT !.outcome = "Error"]
                          ELSE [ outcome |-> "Saved",
                                 images |-> Append(imgs,
                                     ImageInfo(next_index, filename, part.mime_type,
                                               PutVersion(st, filename))),
                                 written |-> TRUE,
                                 current |-> next_index,
                                 store |-> Put(st, filename, Blob(part.mime_type, part.data)),
                                 index |-> next_index,
                                 saved |-> 1 ]

\* state[UPLOADED_IMAGES_KEY] = uploaded_images, the list object read at the start
Upload ==
    /\ last = NoLast
    /\ \A p \in Tasks : task[p].pc = "idle"
    /\ \E save_raises \in BOOLEAN :
        \E r \in {save_uploaded_image(user_content, uploaded_images, current_index, store,
                                     save_raises)},
           ref \in {IF images_ref = None THEN FreshRef(images_ref, task) ELSE images_ref} :
            /\ r.outcome = "Saved" => Len(returned) < MaxUploads
            /\ images_ref' = IF r.written THEN ref ELSE images_ref
            /\ heap' = IF r.written THEN [heap EXCEPT ![ref] = r.images] ELSE heap
            /\ current_index' = r.current
            /\ store' = r.store
            /\ returned' = IF r.outcome = "Saved" THEN Append(returned, r.index) ELSE returned
            /\ last_upload' = IF r.outcome = "Saved" THEN SentImage(user_content)
                               ELSE last_upload
            /\ sent' = IF r.outcome = "Saved" THEN Append(sent, SentImage(user_content))
                        ELSE sent
            /\ last' = [NoLast EXCEPT !.op = "upload", !.outcome = r.outcome,
                                      !.index = r.index, !.saved = r.saved,
                                      !.before = Indices(uploaded_images),
                                      !.current_before = current_index,
                                      !.store_before = store]
    /\ UNCHANGED << user_content, task, ever_cleared >>

(***************************************************************************)
(* list_uploaded_images                                                    *)
(***************************************************************************)
list_uploaded_images(imgs, cur) ==
    IF imgs = <<>> THEN [outcome |-> "NoImages", available |-> <<>>]
    ELSE [outcome |-> "Listed", available |-> Indices(imgs)]

List ==
    /\ last = NoLast
    /\ \A p \in Tasks : task[p].pc = "idle"
    /\ \E r \in {list_uploaded_images(uploaded_images, current_index)} :
           last' = [NoLast EXCEPT !.op = "list", !.outcome = r.outcome,
                                  !.available = r.available,
                                  !.before = Indices(uploaded_images),
                                  !.current_before = current_index,
                                  !.store_before = store]
    /\ UNCHANGED << images_ref, heap, current_index, store, user_content, task, returned,
                    ever_cleared, last_upload, sent >>

(***************************************************************************)
(* clear_image_history                                                     *)
(***************************************************************************)
\* Faulty variant of clear_image_history: the current index key is left in place.
clear_image_history_keeps_current(imgs, cur) ==
    IF Len(imgs) > 0
    THEN [outcome |-> "Cleared", emptied |-> TRUE, current |-> cur]
    ELSE [outcome |-> "NothingToClear", emptied |-> FALSE, current |-> cur]

\* count > 0: state[UPLOADED_IMAGES_KEY] = [] and the current index key deleted
\* Faulty variant of clear_image_history: the current index is deleted but
\* the list is not replaced by an empty one.
clear_image_history_keeps_list(imgs, cur) ==
    IF Len(imgs) > 0
    THEN [outcome |-> "Cleared", emptied |-> FALSE, current |-> None]
    ELSE [outcome |-> "NothingToClear", emptied |-> FALSE, current |-> cur]

\* Faulty variant of clear_image_history: a history of one image counts as
\* nothing to clear.
clear_image_history_when_many(imgs, cur) ==
    IF Len(imgs) > 1
    THEN [outcome |-> "Cleared", emptied |-> TRUE, current |-> None]
    ELSE [outcome |-> "NothingToClear", emptied |-> FALSE, current |-> cur]

clear_image_history(imgs, cur) ==
    IF Len(imgs) > 0
    THEN [outcome |-> "Cleared", emptied |-> TRUE, current |-> None]
    ELSE [outcome |-> "NothingToClear", emptied |-> FALSE, current |-> cur]

\* Faulty variant of StoreAfterClear: the stored source images are deleted.
StoreAfterClearDeletes(st) ==
    [f \in {g \in DOMAIN st : g[1] # "source_image"} |-> st[f]]

\* clear_image_history calls neither save_artifact nor any other method of the
\* artifact store (lines 408-420): the store it leaves.
StoreAfterClear(st) == st

Clear ==
    /\ last = NoLast
    /\ \E r \in {clear_image_history(uploaded_images, current_index)},
          ref \in {IF uploaded_images = <<>> THEN images_ref
                   ELSE FreshRef(images_ref, task)} :
           /\ images_ref' = IF r.emptied THEN ref ELSE images_ref
           /\ current_index' = r.current
           /\ heap' = IF r.emptied
                      THEN Collect([heap EXCEPT ![ref] = <<>>], ref, task)
                      ELSE heap
           /\ ever_cleared' = (ever_cleared \/ r.emptied)
           /\ store' = StoreAfterClear(store)
           /\ last' = [NoLast EXCEPT !.op = "clear", !.outcome = r.outcome,
                                     !.before = Indices(uploaded_images),
                                     !.current_before = current_index,
                                     !.store_before = store]
    /\ UNCHANGED << user_content, task, returned, last_upload, sent >>

(***************************************************************************)
(* transform_to_halloween_character                                        *)
(***************************************************************************)
\* the first img of uploaded_images with img['index'] == target_index; 0 if none
FindImage(imgs, target_index) ==
    IF \E i \in 1 .. Len(imgs) : imgs[i].index = target_index
    THEN CHOOSE i \in 1 .. Len(imgs) :
            /\ imgs[i].index = target_index
            /\ \A j \in 1 .. (i - 1) : imgs[j].index # target_index
    ELSE 0

\* Faulty variant of TargetIndex: the first image is the default.
TargetIndexFirst(image_number, cur) == IF image_number # None THEN image_number ELSE 1

\* target_index = image_number if image_number is not None else current_index
TargetIndex(image_number, cur) == IF image_number # None THEN image_number ELSE cur

\* Faulty variants of FreshImageIndex: the loop without its break (the last
\* image part wins); the mime type not looked at (any inline part is taken).
FreshImageIndexLast(uc) ==
    IF NoParts(uc) \/ FirstImagePart(uc[1]) = 0 THEN 0
    ELSE MaxOf({i \in 1 .. Len(uc[1]) : IsImagePart(uc[1][i])})
FreshImageIndexAnyInline(uc) ==
    IF NoParts(uc) \/ \A i \in 1 .. Len(uc[1]) : ~uc[1][i].inline_data THEN 0
    ELSE MaxOf({i \in 1 .. Len(uc[1]) : uc[1][i].inline_data})

\* lines 293-306: the part the loop over user_content.parts breaks at; 0 when
\* there is no user_content, no parts, or no image part
FreshImageIndex(uc) == IF NoParts(uc) THEN 0 ELSE FirstImagePart(uc[1])

\* Faulty variant of AvailableIndices: the latest image is left out.
AvailableIndicesWithoutLatest(imgs) == Indices(SubSeq(imgs, 1, Len(imgs) - 1))

\* available_indices = [img['index'] for img in uploaded_images]
AvailableIndices(imgs) == Indices(imgs)

\* Choosing and loading the source image.  outcome "Resolved" is image_found
\* being True after the if/else; every other outcome is a return.
\* load_raises is load_artifact raising.
ResolveSource(image_number, uc, imgs, cur, st, load_raises) ==
    LET target_index == TargetIndex(image_number, cur)
        none == [outcome |-> "none", target_index |-> target_index, available |-> <<>>,
                 image_source |-> "none", target |-> NoImage, contents |-> NoBlob]
    IN  IF imgs = <<>>
        THEN IF FreshImageIndex(uc) # 0
             THEN [none EXCEPT !.outcome = "Resolved",
                               !.image_source = "newly uploaded",
                               !.contents = Blob(uc[1][FreshImageIndex(uc)].mime_type,
                                                 uc[1][FreshImageIndex(uc)].data)]
             ELSE [none EXCEPT !.outcome = "NoImageAvailable"]
        ELSE IF FindImage(imgs, target_index) = 0
        THEN [none EXCEPT !.outcome = "NotFound", !.available = AvailableIndices(imgs)]
        ELSE IF load_raises
        THEN [none EXCEPT !.outcome = "LoadError",
                          !.target = imgs[FindImage(imgs, target_index)]]
        ELSE IF GetLatest(st, imgs[FindImage(imgs, target_index)].filename) = NoBlob
        THEN [none EXCEPT !.outcome = "CouldNotLoad",
                          !.target = imgs[FindImage(imgs, target_index)]]
        ELSE [none EXCEPT !.outcome = "Resolved",
                          !.image_source = "history",
                          !.target = imgs[FindImage(imgs, target_index)],
                          !.contents = GetLatest(st, imgs[FindImage(imgs, target_index)].filename)]

\* Faulty variant of LedgerAfterTransform: the image transformed becomes the
\* current one.
LedgerAfterTransformMarksCurrent(imgs, cur, target_index) ==
    [images |-> imgs, current |-> target_index]

\* The call reads state[UPLOADED_IMAGES_KEY] and state[CURRENT_IMAGE_INDEX_KEY]
\* (lines 285-286) and assigns neither: what it leaves in them.
LedgerAfterTransform(imgs, cur, target_index) == [images |-> imgs, current |-> cur]

\* character_type.replace(" ", "_").replace("/", "_")
SafeCharacterName(character_type) ==
    CASE character_type = "cursed clown" -> "cursed_clown"
      [] OTHER -> character_type

\* uuid.uuid4().hex[:8]: a token no earlier call drew
FreshUuid(st) == ToString(NumTransformed(st) + 1)

FirstGenImage(parts) ==
    IF \E i \in 1 .. Len(parts) : parts[i].inline_data
    THEN CHOOSE i \in 1 .. Len(parts) :
            /\ parts[i].inline_data
            /\ \A j \in 1 .. (i - 1) : ~parts[j].inline_data
    ELSE 0

\* Faulty variant of ImagesToSave: the loop does not return after the first
\* image part and saves every one.
ImagesToSaveEvery(parts) == SelectSeq(parts, LAMBDA part : part.inline_data)

\* lines 366-392: the parts of response.candidates[0].content.parts the loop
\* saves.  It returns from inside the loop at the first part with inline_data,
\* so that part only.
ImagesToSave(parts) ==
    IF FirstGenImage(parts) = 0 THEN <<>> ELSE << parts[FirstGenImage(parts)] >>

\* lines 372-381: each saved part becomes a new artifact under a fresh name
RECURSIVE SaveGenerated(_, _, _, _)
SaveGenerated(st, safe_name, target_index, parts) ==
    IF parts = <<>> THEN st
    ELSE SaveGenerated(Put(st, HalloweenFilename(safe_name, target_index, FreshUuid(st)),
                           Blob(ImagePng, Head(parts).data)),
                       safe_name, target_index, Tail(parts))

\* Faulty variant of GenCalls: a response without an image is asked for again.
GenCallsRetryOnEmpty(gen_raises, response) ==
    IF gen_raises THEN 1
    ELSE IF response = NoCandidates THEN 2
    ELSE IF FirstGenImage(response[1]) = 0 THEN 2 ELSE 1

\* lines 360-363: client.models.generate_content is called in one statement,
\* in no loop and with no retry: the calls made once a source image is loaded
GenCalls(gen_raises, response) == 1

\* Variant of ExceptionOutcome with an outcome of its own for a timeout.
ExceptionOutcomeTimeoutApart(gen_timeout) ==
    IF gen_timeout THEN "GenerationInterrupted" ELSE "Error"

\* lines 396-398: the one except clause, `except Exception`, returns "Error
\* during transformation: ..." whatever the class of the exception
ExceptionOutcome(gen_timeout) == "Error"

\* One whole call, the client constructed.  gen_raises is generate_content
\* raising (gen_timeout: with a timeout), response what it returns
\* otherwise, save_raises the store failing the write of the result.
\* response.candidates[0] of a response without candidates raises inside the
\* try and ends in the except clause of line 396.
transform_to_halloween_character(character_type, image_number, uc, imgs, cur, st, load_raises, gen_raises, gen_timeout, response, save_raises) ==
    LET src == ResolveSource(image_number, uc, imgs, cur, st, load_raises)
        res == [ outcome |-> src.outcome, target_index |-> src.target_index,
                 available |-> src.available, image_source |-> src.image_source,
                 target |-> src.target, contents |-> src.contents,
                 gen_calls |-> 0, gen_end |-> "none", gen_images |-> 0, saved |-> 0,
                 images |-> LedgerAfterTransform(imgs, cur, src.target_index).images,
                 current |-> LedgerAfterTransform(imgs, cur, src.target_index).current,
                 store |-> st ]
        called == [res EXCEPT !.gen_calls = GenCalls(gen_raises, response)]
        parts == IF response = NoCandidates THEN <<>> ELSE response[1]
        got == [called EXCEPT !.gen_end = "returned",
                              !.gen_images = Len(SelectSeq(parts, LAMBDA part : part.inline_data))]
    IN  IF src.outcome # "Resolved" THEN res
        ELSE IF gen_raises
        THEN [called EXCEPT !.outcome = ExceptionOutcome(gen_timeout),
                            !.gen_end = IF gen_timeout THEN "timeout" ELSE "raised"]
        ELSE IF response = NoCandidates THEN [got EXCEPT !.outcome = ExceptionOutcome(FALSE)]
        ELSE IF ImagesToSave(parts) = <<>>
        THEN [got EXCEPT !.outcome = "GenerationEmpty"]
        ELSE IF save_raises THEN [got EXCEPT !.outcome = ExceptionOutcome(FALSE)]
        ELSE [got EXCEPT
                !.outcome = "Success", !.saved = Len(ImagesToSave(parts)),
                !.store = SaveGenerated(st, SafeCharacterName(character_type),
                                        src.target_index, ImagesToSave(parts))]

Transform ==
    /\ last = NoLast
    /\ \A p \in Tasks : task[p].pc = "idle"
    /\ \E character_type \in CharacterTypes, image_number \in ImageNumbers,
          env \in TransformEnvs :
        \E r \in {transform_to_halloween_character(character_type, image_number,
                     user_content, uploaded_images, current_index, store,
                     env.load_raises, env.gen_raises, env.gen_timeout, env.response,
                     env.save_raises)} :
            /\ r.outcome = "Success" => NumTransformed(store) < MaxTransforms
            /\ store' = r.store
            /\ current_index' = r.current
            /\ images_ref' = IF r.images = uploaded_images THEN images_ref
                             ELSE IF images_ref = None THEN FreshRef(images_ref, task)
                             ELSE images_ref
            /\ heap' = IF r.images = uploaded_images THEN heap
                       ELSE [heap EXCEPT ![images_ref'] = r.images]
            /\ last' = [ op |-> "transform", outcome |-> r.outcome,
                         image_number |-> image_number, index |-> r.target_index,
                         before |-> Indices(uploaded_images),
                         current_before |-> current_index,
                         available |-> r.available, image_source |-> r.image_source,
                         target |-> r.target, contents |-> r.contents,
                         gen_calls |-> r.gen_calls, gen_end |-> r.gen_end,
                         gen_images |-> r.gen_images, store_before |-> store,
                         saved |-> r.saved ]
    /\ UNCHANGED << user_content, task, returned, ever_cleared, last_upload, sent >>

\* genai.Client() sits before the try: when it cannot be constructed the call
\* raises to its caller, having read and written nothing.
TransformClientRaises ==
    /\ last = NoLast
    /\ \A p \in Tasks : task[p].pc = "idle"
    /\ \E image_number \in ImageNumbers :
        last' = [NoLast EXCEPT !.op = "transform", !.outcome = "Raised",
                               !.image_number = image_number,
                               !.before = Indices(uploaded_images),
                               !.current_before = current_index,
                               !.store_before = store]
    /\ UNCHANGED << images_ref, heap, current_index, store, user_content, task, returned,
                    ever_cleared, last_upload, sent >>

(***************************************************************************)
(* The tools run one at a time, each to completion.                        *)
(***************************************************************************)
Next == NewMessage \/ Upload \/ List \/ Clear \/ Transform \/ Deliver

Spec == Init /\ [][Next]_vars

NextEnv == Next \/ TransformClientRaises

SpecEnv == Init /\ [][NextEnv]_vars

(***************************************************************************)
(* The extension of the stored filename: messages carrying one attachment  *)
(* of each mime type are uploaded.                                         *)
(***************************************************************************)
MimeTypes ==
    { <<"image", t>> : t \in {"jpeg", "jpg", "png", "gif", "webp", "bmp", "tiff", "svg+xml",
                              "x-unknown", "JPEG"} }
    \cup { <<"IMAGE", "png">>, AppPdf }
MimeContents == { << << InlinePart(m, "b1") >> >> : m \in MimeTypes }

InitMime ==
    /\ images_ref = None
    /\ heap = [r \in Refs |-> <<>>]
    /\ current_index = None
    /\ store = <<>>
    /\ user_content \in MimeContents
    /\ task = [p \in Tasks |-> IdleTask]
    /\ last = NoLast
    /\ returned = <<>>
    /\ ever_cleared = FALSE
    /\ last_upload = NoBlob
    /\ sent = <<>>

NewMimeMessage ==
    /\ last = NoLast
    /\ \A p \in Tasks : task[p].pc = "idle"
    /\ user_content' \in MimeContents
    /\ last' = NoLast
    /\ UNCHANGED << images_ref, heap, current_index, store, task, returned, ever_cleared,
                    last_upload, sent >>

NextMime == NewMimeMessage \/ Upload \/ Deliver

SpecMime == InitMime /\ [][NextMime]_vars

(***************************************************************************)
(* save_uploaded_image with its suspension point: the call runs to the     *)
(* await of save_artifact, the store performs the write, and the call is   *)
(* resumed.  Other calls of the session run in between.                    *)
(***************************************************************************)
InFlight == {p \in Tasks : task[p].pc # "idle"}

\* lines 138-164: up to the await
UploadBegin(p) ==
    /\ task[p].pc = "idle"
    /\ \E ref \in {IF images_ref = None THEN FreshRef(images_ref, task) ELSE images_ref},
          i \in {IF NoParts(user_content) THEN 0 ELSE FirstImagePart(user_content[1])} :
        IF i = 0
        THEN /\ last' = [NoLast EXCEPT !.op = "upload",
                            !.outcome = IF NoParts(user_content) THEN "NoContent"
                                        ELSE "NoImageInMessage",
                            !.before = Indices(uploaded_images),
                            !.current_before = current_index]
             /\ UNCHANGED << heap, task >>
        ELSE /\ Len(returned) + Cardinality(InFlight) < MaxUploads
             /\ task' = [task EXCEPT ![p] =
                    [ pc |-> "saving", list_ref |-> ref,
                      next_index |-> NextIndex(uploaded_images),
                      part |-> user_content[1][i],
                      filename |-> ArtifactFilename(NextIndex(uploaded_images),
                                                    user_content[1][i].mime_type),
                      version |-> 0 ]]
             /\ heap' = [heap EXCEPT ![ref] = uploaded_images]
             /\ UNCHANGED last
    /\ UNCHANGED << images_ref, current_index, store, user_content, returned, ever_cleared,
                    last_upload, sent >>

\* lines 165-168: the store writes the artifact, or fails
UploadPut(p) ==
    /\ task[p].pc = "saving"
    /\ \E save_raises \in BOOLEAN :
        IF save_raises
        THEN /\ task' = [task EXCEPT ![p] = IdleTask]
             /\ heap' = Collect(heap, images_ref, task')
             /\ last' = [NoLast EXCEPT !.op = "upload", !.outcome = "Error"]
             /\ UNCHANGED store
        ELSE /\ task' = [task EXCEPT ![p].pc = "resume",
                                     ![p].version = PutVersion(store, task[p].filename)]
             /\ store' = Put(store, task[p].filename,
                             Blob(task[p].part.mime_type, task[p].part.data))
             /\ UNCHANGED << heap, last >>
    /\ UNCHANGED << images_ref, current_index, user_content, returned, ever_cleared,
                    last_upload, sent >>

\* lines 170-188: the record is appended to the list read at the start, and
\* that list and next_index are stored in the state
UploadResume(p) ==
    /\ task[p].pc = "resume"
    /\ task' = [task EXCEPT ![p] = IdleTask]
    /\ images_ref' = task[p].list_ref
    /\ current_index' = task[p].next_index
    /\ heap' = Collect([heap EXCEPT ![task[p].list_ref] =
                           Append(@, ImageInfo(task[p].next_index, task[p].filename,
                                               task[p].part.mime_type, task[p].version))],
                       images_ref', task')
    /\ returned' = Append(returned, task[p].next_index)
    /\ last_upload' = Blob(task[p].part.mime_type, task[p].part.data)
    /\ sent' = Append(sent, Blob(task[p].part.mime_type, task[p].part.data))
    /\ last' = [NoLast EXCEPT !.op = "upload", !.outcome = "Saved",
                              !.index = task[p].next_index, !.saved = 1]
    /\ UNCHANGED << store, user_content, ever_cleared >>

NextConc ==
    \/ NewMessage
    \/ Deliver
    \/ Clear
    \/ \E p \in Tasks : UploadBegin(p)
    \/ \E p \in Tasks : UploadPut(p)
    \/ \E p \in Tasks : UploadResume(p)

SpecConc == Init /\ [][NextConc]_vars

(***************************************************************************)
(* Properties.                                                             *)
(***************************************************************************)
Range(seq) == {seq[i] : i \in 1 .. Len(seq)}
IsPrefix(a, b) == Len(a) <= Len(b) /\ \A i \in 1 .. Len(a) : a[i] = b[i]

\* the image-typed attachments of the turn's message, in order
ImageAttachments ==
    IF user_content = <<>> THEN <<>>
    ELSE SelectSeq(user_content[1], LAMBDA part : part.inline_data /\ part.mime_type[1] = "image")
HasImageAttachment == ImageAttachments # <<>>

TransformDone == last.op = "transform"
PastResolution == last.outcome \in {"Success", "GenerationEmpty", "Error"}

\* C1: a transform called with an explicit image_number that is the index of
\* no record of the history returns NotFound, whatever the history (empty
\* included) and whatever the message carries; no attachment is used instead
\* and the generator is not called.
C1_ExplicitMissingIsNotFound ==
    (TransformDone /\ last.image_number # None /\ last.image_number \notin Range(last.before))
        => /\ last.outcome = "NotFound"
           /\ last.image_source = "none"
           /\ last.gen_calls = 0

C3_OverlappingUploadsDistinct ==
    /\ ~ever_cleared => \A i, j \in 1 .. Len(returned) : i < j => returned[i] < returned[j]
    /\ \A i, j \in 1 .. Len(uploaded_images) :
          i < j => /\ uploaded_images[i].index # uploaded_images[j].index
                   /\ << uploaded_images[i].filename, uploaded_images[i].version >>
                        # << uploaded_images[j].filename, uploaded_images[j].version >>

\* C4: a transform with no explicit index on a non-empty history resolves to
\* the record at current_index, which is the record of the most recent upload,
\* attachment or not; when it goes on to the generator the image it passes is
\* that record's stored artifact.  An explicit index of the history resolves to
\* the record with that index.
C4_HistoryBeforeAttachment ==
    (TransformDone /\ last.before # <<>>) =>
        /\ last.image_source # "newly uploaded"
        /\ last.image_number = None =>
              /\ last.outcome # "NotFound"
              /\ last.target.index = last.current_before
              /\ last.target = uploaded_images[Len(uploaded_images)]
              /\ last.target.index = returned[Len(returned)]
        /\ last.image_number \in Range(last.before) =>
              /\ last.outcome # "NotFound"
              /\ last.target.index = last.image_number
              /\ last.target \in Range(uploaded_images)
        /\ PastResolution =>
              /\ last.image_source = "history"
              /\ last.contents = GetLatest(store, last.target.filename)

C4_Witness ==
    /\ TransformDone /\ last.image_number = None /\ last.outcome = "Success"
    /\ Len(uploaded_images) >= 2
    /\ HasImageAttachment
    /\ last.contents.data # ImageAttachments[1].data

\* C5: a transform with no explicit index, on an empty history, of a message
\* with an image attachment resolves to the bytes of the first such attachment;
\* nothing is recorded: the history is still empty and current_index unset.
C5_AttachmentOnEmptyHistory ==
    (TransformDone /\ last.image_number = None /\ last.before = <<>> /\ HasImageAttachment) =>
        /\ PastResolution
        /\ last.image_source = "newly uploaded"
        /\ last.contents = Blob(ImageAttachments[1].mime_type, ImageAttachments[1].data)
        /\ uploaded_images = <<>>
        /\ current_index = None

C5_Witness ==
    /\ TransformDone /\ last.image_number = None /\ last.before = <<>>
    /\ Len(ImageAttachments) >= 2
    /\ last.outcome = "Success"

\* C6: a transform with no explicit index, on an empty history, of a message
\* with no image attachment returns NoImageAvailable.
C6_NoImageAvailable ==
    (TransformDone /\ last.image_number = None /\ last.before = <<>> /\ ~HasImageAttachment) =>
        /\ last.outcome = "NoImageAvailable"
        /\ last.gen_calls = 0

C6_Witness ==
    /\ TransformDone /\ last.image_number = None /\ last.before = <<>>
    /\ ~NoParts(user_content) /\ ~HasImageAttachment
    /\ last.outcome = "NoImageAvailable"
    /\ ever_cleared

\* C7: the indices a NotFound lists are exactly the indices of the records of
\* the history, and the index asked for is none of them.
C7_NotFoundListsHistory ==
    (TransformDone /\ last.outcome = "NotFound") =>
        /\ last.available = Indices(uploaded_images)
        /\ Range(last.available) = IndexSet(uploaded_images)
        /\ last.index \notin IndexSet(uploaded_images)

C7_Witness ==
    /\ TransformDone /\ last.outcome = "NotFound"
    /\ Len(uploaded_images) >= 2
    /\ last.image_number = MaxUploads + 1

\* C8: current_index is unset or the index of a record of the history.
C8_CurrentIndexInHistory ==
    current_index = None \/ current_index \in IndexSet(uploaded_images)

C8_Witness ==
    /\ ever_cleared
    /\ current_index # None
    /\ last.op = "upload"

\* C9: the indices of the records of the history are strictly increasing in
\* insertion order, hence pairwise distinct.
C9_IndicesStrictlyIncreasing ==
    \A i, j \in 1 .. Len(uploaded_images) :
        i < j => uploaded_images[i].index < uploaded_images[j].index

C9_Witness ==
    /\ Len(uploaded_images) >= 2
    /\ last.op = "upload" /\ last.outcome = "Saved"

\* C10: a transform call, whatever its outcome, leaves the history and
\* current_index as they were, and every artifact version stored before it is
\* still stored, unchanged.
C10_TransformIsAdditive ==
    [][ last'.op = "transform" =>
            /\ uploaded_images' = uploaded_images
            /\ images_ref' = images_ref
            /\ current_index' = current_index
            /\ \A f \in DOMAIN store :
                  f \in DOMAIN store' /\ IsPrefix(store[f], store'[f]) ]_vars

C10_Witness ==
    /\ TransformDone /\ last.outcome = "Success"
    /\ last.image_number # None /\ last.image_number # current_index
    /\ last.target.index = last.image_number
    /\ ArtifactCount(store) > Len(returned)

\* C11: a transform call adds exactly one artifact to the store when it
\* returns Success, also when the response of the generator holds several
\* image parts, and none on every other outcome: NotFound, NoImageAvailable, a
\* failed load, a response without an image, the generator or the store
\* raising, the client not constructed.
C11_OneArtifactOnSuccess ==
    TransformDone =>
        ArtifactCount(store) =
            ArtifactCount(last.store_before) + (IF last.outcome = "Success" THEN 1 ELSE 0)

C11_Witness ==
    /\ TransformDone /\ last.outcome = "Success"
    /\ last.gen_images >= 2
    /\ ArtifactCount(store) = ArtifactCount(last.store_before) + 1

\* C12: every clear_image_history step leaves the history empty and the
\* current index unset; on a history that is already empty it changes nothing
\* of the session (state, store) and still returns a success message, so a
\* second clear changes nothing after the first.
C12_ClearEmptiesAndIsIdempotent ==
    [][last'.op = "clear" =>
        /\ uploaded_images' = <<>>
        /\ current_index' = None
        /\ last'.outcome \in {"Cleared", "NothingToClear"}
        /\ uploaded_images = <<>> =>
              /\ last'.outcome = "NothingToClear"
              /\ UNCHANGED << images_ref, heap, current_index, store, user_content, task,
                              returned >>]_vars

C12_Witness ==
    /\ last.op = "clear" /\ last.outcome = "NothingToClear"
    /\ ever_cleared
    /\ uploaded_images = <<>> /\ current_index = None

\* C13: clear_image_history leaves the artifact store as it was: every
\* filename keeps all its versions, with the same bytes.
C13_ClearKeepsArtifacts ==
    last.op = "clear" => store = last.store_before

C13_Witness ==
    /\ last.op = "clear" /\ last.outcome = "Cleared"
    /\ ArtifactCount(store) >= 2
    /\ \E f \in DOMAIN store : f[1] = "source_image"

\* C14: a clear leaves the history empty, the history stays empty until the
\* next successful upload, and a successful upload on an empty history
\* returns index 1: the first upload after a clear is numbered 1, whatever
\* was uploaded before.
C14_IndexRestartsAfterClear ==
    [][/\ last'.op = "clear" => uploaded_images' = <<>>
       /\ uploaded_images = <<>> =>
             IF last'.op = "upload" /\ last'.outcome = "Saved"
             THEN last'.index = 1 /\ Indices(uploaded_images') = << 1 >>
             ELSE uploaded_images' = <<>>]_vars

C14_Witness ==
    /\ ever_cleared
    /\ Len(returned) >= 2
    /\ last.op = "upload" /\ last.outcome = "Saved" /\ last.index = 1
    /\ returned[Len(returned)] = 1

\* C15: with a non-empty history, a transform without image_number that gets
\* past loading its source has loaded from the store exactly the image (bytes
\* and mime type) that the most recent successful save_uploaded_image was
\* sent; such a call never ends in NotFound, NoImageAvailable or a missing
\* artifact.
C15_RoundTrip ==
    (TransformDone /\ last.image_number = None /\ last.before # <<>>)
        => /\ last.outcome \in {"Success", "GenerationEmpty", "Error", "LoadError"}
           /\ last.outcome # "LoadError" =>
                 /\ last.image_source = "history"
                 /\ last.contents = last_upload
                 /\ last.contents # NoBlob

C15_Witness ==
    /\ TransformDone /\ last.image_number = None /\ PastResolution
    /\ Len(last.before) >= 2
    /\ last.contents = last_upload
    /\ \E f \in DOMAIN store : f[1] = "source_image" /\ GetLatest(store, f) # last_upload

\* what a transform call leaves of the session when it changes nothing
TransformLeftAll ==
    /\ store = last.store_before
    /\ Indices(uploaded_images) = last.before
    /\ current_index = last.current_before

\* C16 as stated: a transform whose generate_content call timed out leaves
\* history and store unchanged and returns an outcome of its own, which is
\* neither the outcome of a generator failure ("Error"), nor GenerationEmpty,
\* nor Success.
C16_InterruptedIsDistinct ==
    (TransformDone /\ last.gen_end = "timeout")
        => /\ TransformLeftAll
           /\ last.outcome \notin {"Error", "GenerationEmpty", "Success"}

\* C16, amended: a transform whose generate_content call timed out leaves
\* history and store unchanged and returns the outcome of every other
\* generator failure, "Error"; it is neither GenerationEmpty nor Success, and
\* the generator was called once.
C16_TimeoutIsGenerationFailed ==
    (TransformDone /\ last.gen_end = "timeout")
        => /\ TransformLeftAll
           /\ last.outcome = "Error"
           /\ last.saved = 0
           /\ last.gen_calls = 1

C16_Witness ==
    /\ TransformDone /\ last.gen_end = "timeout"
    /\ last.before # <<>>
    /\ ArtifactCount(store) >= 1
    /\ last.outcome = "Error"

\* the outcomes a tool returns to its caller as a message
ReturnedOutcomes ==
    { "NoContent", "NoImageInMessage", "Saved", "NoImages", "Listed", "Cleared",
      "NothingToClear", "NoImageAvailable", "NotFound", "LoadError", "CouldNotLoad",
      "GenerationEmpty", "Success", "Error" }

\* C17: every call of save_uploaded_image, list_uploaded_images,
\* transform_to_halloween_character and clear_image_history ends by returning
\* an outcome to its caller, whatever fails inside it; none raises.
C17_NoFailureEscapes ==
    last.op # "none" => last.outcome \in ReturnedOutcomes

\* C18: a transform whose generator returned a response without an image
\* part returns GenerationEmpty and adds no artifact to the store;
\* GenerationEmpty is not the outcome of a generator that raised, nor of a
\* transform that saved an image.
C18_EmptyResponseIsGenerationEmpty ==
    TransformDone =>
        /\ (last.gen_end = "returned" /\ last.gen_images = 0) =>
              /\ last.outcome = "GenerationEmpty"
              /\ ArtifactCount(store) = ArtifactCount(last.store_before)
        /\ last.gen_end \in {"raised", "timeout"} => last.outcome # "GenerationEmpty"
        /\ last.saved > 0 => last.outcome # "GenerationEmpty"

\* C20: one transform call calls the generator at most once: not at all when
\* it ends in NotFound, NoImageAvailable, a failed load or before its body,
\* once when a source image was found and loaded, and once, not more, when the
\* response holds no image.
C20_GeneratorCalledOnce ==
    TransformDone =>
        /\ last.gen_calls <= 1
        /\ last.outcome \in {"NotFound", "NoImageAvailable", "LoadError", "CouldNotLoad",
                             "Raised"} => last.gen_calls = 0
        /\ last.contents # NoBlob => last.gen_calls = 1
        /\ last.gen_end # "none" => last.gen_calls = 1

C20_Witness ==
    /\ TransformDone /\ last.outcome = "GenerationEmpty"
    /\ last.gen_end = "returned" /\ last.gen_images = 0
    /\ last.contents # NoBlob
    /\ last.gen_calls = 1

\* the extension of a filename of the store
Extension(filename) == filename[2]

\* the mapping as C19 lists it, the mime type read in lower case
ClaimedExtension(mime_type) ==
    LET m == <<Lower(mime_type[1]), Lower(mime_type[2])>>
    IN  IF m[1] # "image" THEN ".png"
        ELSE CASE m[2] = "jpeg" -> ".jpg"
               [] m[2] = "png" -> ".png"
               [] m[2] = "gif" -> ".gif"
               [] m[2] = "webp" -> ".webp"
               [] m[2] = "bmp" -> ".bmp"
               [] m[2] = "tiff" -> ".tiff"
               [] m[2] = "svg+xml" -> ".svg"
               [] OTHER -> ".png"

\* the same with image/jpg mapped to .jpg as well
ExtensionWithJpg(mime_type) ==
    IF <<Lower(mime_type[1]), Lower(mime_type[2])>> = <<"image", "jpg">> THEN ".jpg"
    ELSE ClaimedExtension(mime_type)

\* the mime types of the attachments of the message
AttachedMimeTypes ==
    IF user_content = <<>> THEN {}
    ELSE {user_content[1][i].mime_type : i \in 1 .. Len(user_content[1])}

\* C19 as stated: the extension computed for a mime type is .jpg for
\* image/jpeg, .png for image/png, .gif, .webp, .bmp, .tiff for the types of
\* those names, .svg for image/svg+xml and .png for every other mime type, and
\* every record of the history has a filename with the extension of its mime
\* type.
C19_ExtensionTable ==
    /\ \A m \in AttachedMimeTypes : get_extension_from_mime(m) = ClaimedExtension(m)
    /\ \A i \in 1 .. Len(uploaded_images) :
          /\ Extension(uploaded_images[i].filename) = ClaimedExtension(uploaded_images[i].mime_type)
          /\ uploaded_images[i].filename \in DOMAIN store

\* C19, amended: as stated, except that image/jpg maps to .jpg like
\* image/jpeg; the mime type is compared in lower case.
C19_ExtensionTableWithJpg ==
    /\ \A m \in AttachedMimeTypes : get_extension_from_mime(m) = ExtensionWithJpg(m)
    /\ \A i \in 1 .. Len(uploaded_images) :
          /\ Extension(uploaded_images[i].filename) = ExtensionWithJpg(uploaded_images[i].mime_type)
          /\ uploaded_images[i].filename \in DOMAIN store

C19_Witness ==
    /\ last.op = "upload" /\ last.outcome = "Saved"
    /\ \E i \in 1 .. Len(uploaded_images) :
          /\ uploaded_images[i].mime_type = <<"image", "jpg">>
          /\ Extension(uploaded_images[i].filename) = ".jpg"
    /\ \E i \in 1 .. Len(uploaded_images) :
          /\ uploaded_images[i].mime_type = <<"image", "x-unknown">>
          /\ Extension(uploaded_images[i].filename) = ".png"

\* C21: a successful save_uploaded_image call wrote the store once and
\* appended one record; the record is the only change of the history, its
\* artifact holds the first image-typed attachment of the message, whatever
\* non-image attachments precede it and whatever images follow it, and no
\* other artifact received a version.
C21_OnlyFirstImageRecorded ==
    (last.op = "upload" /\ last.outcome = "Saved")
        => /\ HasImageAttachment
           /\ last.saved = 1
           /\ ArtifactCount(store) = ArtifactCount(last.store_before) + 1
           /\ Len(uploaded_images) = Len(last.before) + 1
           /\ IsPrefix(last.before, Indices(uploaded_images))
           /\ uploaded_images[Len(uploaded_images)].index = last.index
           /\ GetLatest(store, uploaded_images[Len(uploaded_images)].filename)
                 = Blob(ImageAttachments[1].mime_type, ImageAttachments[1].data)
           /\ uploaded_images[Len(uploaded_images)].mime_type = ImageAttachments[1].mime_type
           /\ \A f \in DOMAIN last.store_before :
                 f # uploaded_images[Len(uploaded_images)].filename
                     => store[f] = last.store_before[f]

C21_Witness ==
    /\ last.op = "upload" /\ last.outcome = "Saved"
    /\ Len(ImageAttachments) >= 2
    /\ ~IsImagePart(user_content[1][1])
    /\ ImageAttachments[1].data # ImageAttachments[2].data
    /\ ArtifactCount(store) = ArtifactCount(last.store_before) + 1
    /\ Len(last.before) >= 1

\* C22: a save_uploaded_image step that does not end in "Saved" (no message
\* content, no image-typed attachment, or save_artifact raising) leaves the
\* history, the current index and the store as they were and returns one of
\* the three error messages; so every record of the history has its artifact
\* in the store.
C22_FailedUploadLeavesLedger ==
    [][(last'.op = "upload" /\ last'.outcome # "Saved") =>
          /\ last'.outcome \in {"NoContent", "NoImageInMessage", "Error"}
          /\ uploaded_images' = uploaded_images
          /\ current_index' = current_index
          /\ store' = store
          /\ returned' = returned
          /\ \A i \in 1 .. Len(uploaded_images') :
                uploaded_images'[i].filename \in DOMAIN store']_vars

C22_Witness ==
    /\ last.op = "upload" /\ last.outcome = "Error"
    /\ HasImageAttachment
    /\ uploaded_images # <<>>
    /\ Indices(uploaded_images) = last.before
    /\ current_index = last.current_before
    /\ store = last.store_before

\* the image the upload that appended record i of the history was sent: the
\* history holds the records of the last Len(uploaded_images) uploads
SentFor(i) == sent[Len(sent) - Len(uploaded_images) + i]

\* C23: every record of the history has its artifact in the store, and the
\* latest version of its filename is the image that was uploaded for it,
\* also when the filename was already used before a clear; a transform with
\* an explicit image_number that is in the history loads the image uploaded
\* for the record of that index.
C23_RecordsLoadWhatWasUploaded ==
    /\ Len(uploaded_images) <= Len(sent)
    /\ \A i \in 1 .. Len(uploaded_images) :
          /\ uploaded_images[i].filename \in DOMAIN store
          /\ GetLatest(store, uploaded_images[i].filename) = SentFor(i)
          /\ SentFor(i).mime_type = uploaded_images[i].mime_type
    /\ (TransformDone /\ last.image_number \in Range(last.before) /\ PastResolution) =>
          \E i \in 1 .. Len(uploaded_images) :
              /\ uploaded_images[i].index = last.image_number
              /\ last.target = uploaded_images[i]
              /\ last.contents = SentFor(i)

C23_Witness ==
    /\ ever_cleared
    /\ TransformDone /\ last.image_number = 1 /\ PastResolution
    /\ last.image_source = "history"
    /\ Len(Versions(store, last.target.filename)) >= 2
    /\ Versions(store, last.target.filename)[1] # last.contents
    /\ last.contents = SentFor(1)

====
